---- MODULE Spec2Model ----
(***************************************************************************)
(* SentinelScope: the bounded-concurrency scheduler (utils/net.py), the    *)
(* TCP port scanner (scanning/ports.py) and the subdomain enumerator       *)
(* (scanning/subdomains.py) and the two scan orchestrators (api.py         *)
(* scan_domain, cli.py domain), as one state machine.                      *)
(*                                                                         *)
(* One behaviour is one call of scan_ports, enumerate_subdomains,          *)
(* gather_with_concurrency, scan_domain or the domain command on the       *)
(* asyncio event loop.  The units of work are the tasks asyncio.gather     *)
(* creates, one per port / candidate name / coroutine; each runs           *)
(* "async with semaphore: await <work>".                                   *)
(***************************************************************************)
EXTENDS Integers, Sequences, FiniteSets, TLC

VARIABLES
    call,        \* which entry point this behaviour runs
    pc,          \* position of the calling coroutine
    limit,       \* the concurrency argument (Semaphore initial value)
    sem,         \* asyncio.Semaphore._value
    waiters,     \* asyncio.Semaphore._waiters, FIFO of unit indices
    unit,        \* unit index -> status of the gathered task
    result,      \* unit index -> value the task returned (NoResult before)
    settled,     \* unit indices in the order the tasks finished
    ports,       \* scan_ports: the ports argument as passed in
    conn,        \* scan_ports: port -> what a connect attempt to it does
    ports_list,  \* scan_ports: sorted(set(int(p) for p in ports))
    report,      \* the returned PortScanResult / SubdomainsResult / list
    work,        \* gather_with_concurrency: what each coroutine does
    root_domain, \* enumerate_subdomains: the root_domain argument
    ct_response, \* enumerate_subdomains: what the crt.sh request comes back with
    resolves,    \* enumerate_subdomains: the wordlist labels whose name resolves
    candidates,  \* enumerate_subdomains: [f"{w}.{root_domain}" for w in WORDLIST]
    discovered,  \* enumerate_subdomains: the discovered set
    sources,     \* enumerate_subdomains: the sources dict
    toggles,     \* orchestrators: the checks the caller left enabled
    fails,       \* orchestrators: the probes whose network operation fails
    tasks,       \* scan_domain: the tasks created and not yet run, FIFO
    started,     \* orchestrators: the probes whose code began to run
    running,     \* orchestrators: the probes begun and not yet settled
    slots,       \* orchestrators: probe -> the local holding its result
    clock,       \* orchestrators: what datetime.utcnow() reads
    started_at,  \* orchestrators: the local "started" (0: not taken yet)
    finished_at, \* orchestrators: the local "finished" (0: not taken yet)
    req,         \* orchestrators: the request (API) or the arguments (CLI)
    host,        \* orchestrators: the local "host"
    scheme,      \* orchestrators: the local "scheme"
    base_url,    \* orchestrators: the local "base_url"
    headers,     \* evaluate_security_headers: the headers argument
    is_https,    \* evaluate_security_headers: the is_https argument
    findings,    \* evaluate_security_headers: the findings returned
    dns_domain,  \* assess_dns: the domain argument
    answers,  \* assess_dns: what the TXT query comes back with
    subdomains,  \* check_takeover_candidates: the subdomains argument
    respond,     \* check_takeover_candidates: position -> what its request does
    requested,   \* check_takeover_candidates: the names requested so far
    flagged      \* check_takeover_candidates: the local "flagged"

portVars == <<ports, conn, ports_list>>

subVars == <<root_domain, ct_response, resolves, candidates, discovered, sources>>

reqVars == <<req, host, scheme, base_url>>

probeVars == <<headers, is_https, findings, dns_domain, answers, subdomains,
               respond, requested, flagged>>

scanVars == <<toggles, fails, tasks, started, running, slots, clock, started_at,
              finished_at, req, host, scheme, base_url>>

vars == <<call, pc, limit, sem, waiters, unit, result, settled,
          ports, conn, ports_list, report, work,
          root_domain, ct_response, resolves, candidates, discovered, sources,
          toggles, fails, tasks, started, running, slots, clock, started_at,
          finished_at, req, host, scheme, base_url,
          headers, is_https, findings, dns_domain, answers, subdomains,
          respond, requested, flagged>>

----------------------------------------------------------------------------
(* Bounds of the model *)

MaxPort == 2       \* candidate port numbers are 1..MaxPort
MaxLen == 3        \* length of the ports argument
MaxLimit == 2      \* concurrency limits 1..MaxLimit, plus the default
MaxTasks == 3      \* coroutines handed to gather_with_concurrency
MaxWords == 2      \* the first MaxWords labels of WORDLIST are swept
MaxEntries == 2    \* entries in the crt.sh answer
MaxDisabled == 2   \* checks the caller switches off in one scan
MaxFailing == 1    \* probes whose network operation fails in one scan

(* Program constants *)

DefaultConcurrency == 200
DefaultConcurrentDns == 50

Ports == 1..MaxPort
Limits(default) == (1..MaxLimit) \cup {default}

NoResult == [none |-> TRUE]
NoReport == [absent |-> TRUE]

Range(s) == {s[i] : i \in DOMAIN s}

SeqsUpTo(S, n) == UNION {[1..k -> S] : k \in 0..n}

Min(a, b) == IF a <= b THEN a ELSE b

----------------------------------------------------------------------------
(* asyncio.Semaphore, as used by "async with semaphore" *)

\* Semaphore.locked(): no free slot, or somebody is already queued.
LockedNever(s, w) == FALSE

Locked(s, w) == s = 0 \/ w # <<>>

\* "async with" runs __aexit__ (release) on every way out of the block.
ExitReleasesOnReturnOnly(how) == how = "return"

ExitReleases(how) == how \in {"return", "raise"}

\* Semaphore.release(): hand the slot to the first waiter, else free it.
SemAfterRelease(s, w) == IF w = <<>> THEN s + 1 ELSE s

WaitersAfterRelease(w) == IF w = <<>> THEN w ELSE Tail(w)

\* asyncio.gather without return_exceptions: a failing child sets the
\* exception on the outer future and leaves the other children running.
CancelSiblings(u) ==
    [j \in DOMAIN u |->
        IF u[j] \in {"created", "waiting", "inflight"} THEN "cancelled" ELSE u[j]]

OnUnitFailure(u) == u

\* The list asyncio.gather returns: children's results by position.
RECURSIVE MapSeq(_, _)
MapSeq(f, idx) ==
    IF idx = <<>> THEN <<>> ELSE <<f[Head(idx)]>> \o MapSeq(f, Tail(idx))

GatherInCompletionOrder(res, order) == MapSeq(res, order)

GatherResults(res, order) == [i \in DOMAIN res |-> res[i]]

----------------------------------------------------------------------------
(* scanning/ports.py *)

ConnOutcomes == {"connected", "timeout", "refused", "close_error", "error"}

\* _try_connect: True after open_connection, close and wait_closed all
\* went through; False on asyncio.TimeoutError or OSError anywhere in the
\* try block; any other exception is not caught.
TryConnectRaises(o) == o = "error"

TryConnect(o) == o = "connected"

PortResult(p, open) == [port |-> p, is_open |-> open]

\* sorted(set(int(p) for p in ports)); the ports are ints already
\* (Iterable[int]), on which int() changes nothing.
RECURSIVE SortedSet(_)
SetMin(S) == CHOOSE x \in S : \A y \in S : x <= y

SortedSet(S) ==
    IF S = {} THEN <<>> ELSE <<SetMin(S)>> \o SortedSet(S \ {SetMin(S)})

RECURSIVE InsertSorted(_, _)
InsertSorted(x, s) ==
    IF s = <<>> THEN <<x>>
    ELSE IF x <= Head(s) THEN <<x>> \o s
    ELSE <<Head(s)>> \o InsertSorted(x, Tail(s))

RECURSIVE SortedKeepingDuplicates(_)
SortedKeepingDuplicates(s) ==
    IF s = <<>> THEN <<>> ELSE InsertSorted(Head(s), SortedKeepingDuplicates(Tail(s)))

PortsListKeepingDuplicates(ps) == SortedKeepingDuplicates(ps)

PortsList(ps) == SortedSet(Range(ps))

\* the ports gather gets one scan_one(p) for
FirstBatch(pl, concurrency) == SubSeq(pl, 1, Min(concurrency, Len(pl)))

ScanUnits(pl, concurrency) == pl

\* [r.port for r in results if r.is_open]
RECURSIVE OpenPorts(_)
AllPorts(results) == [i \in DOMAIN results |-> results[i].port]

OpenPorts(results) ==
    IF results = <<>> THEN <<>>
    ELSE (IF Head(results).is_open THEN <<Head(results).port>> ELSE <<>>)
         \o OpenPorts(Tail(results))

RECURSIVE OpenResults(_)
OpenResults(results) ==
    IF results = <<>> THEN <<>>
    ELSE (IF Head(results).is_open THEN <<Head(results)>> ELSE <<>>)
         \o OpenResults(Tail(results))

PortScanResultOpenOnly(pl, results) ==
    [ports_scanned |-> pl, open_ports |-> OpenPorts(results),
     results |-> OpenResults(results)]

PortScanResult(pl, results) ==
    [ports_scanned |-> pl, open_ports |-> OpenPorts(results), results |-> results]

----------------------------------------------------------------------------
(* Python str, as a sequence of one-character strings *)

\* the characters of the strings that are compared, in code point order
Chars == <<"\n", " ", "*", ",", "-", ".", "/",
           "0", "1", "2", "3", "4", "5", "6", "7", "8", "9", ":",
           "A", "C", "E", "H", "I", "P", "T", "W",
           "a", "b", "c", "d", "e", "f", "g", "h", "i", "l", "m", "n", "o", "p",
           "s", "t", "v", "w", "x">>

\* the position of each character, computed once
OrdTable == [c \in {Chars[i] : i \in DOMAIN Chars} |->
                CHOOSE i \in DOMAIN Chars : Chars[i] = c]

Ord(c) == OrdTable[c]

Whitespace == {"\n", " "}

UpperLetters == <<"A", "B", "C", "D", "E", "F", "G", "H", "I", "J", "K", "L", "M",
                  "N", "O", "P", "Q", "R", "S", "T", "U", "V", "W", "X", "Y", "Z">>

LowerLetters == <<"a", "b", "c", "d", "e", "f", "g", "h", "i", "j", "k", "l", "m",
                  "n", "o", "p", "q", "r", "s", "t", "u", "v", "w", "x", "y", "z">>

\* str.lower(), one character
LowerTable == [c \in {UpperLetters[i] : i \in DOMAIN UpperLetters} |->
                  LowerLetters[CHOOSE i \in DOMAIN UpperLetters : UpperLetters[i] = c]]

LowerChar(c) == IF c \in DOMAIN LowerTable THEN LowerTable[c] ELSE c

Lower(s) == [i \in DOMAIN s |-> LowerChar(s[i])]

\* str.strip()
RECURSIVE LStrip(_)
LStrip(s) ==
    IF s # <<>> /\ Head(s) \in Whitespace THEN LStrip(Tail(s)) ELSE s

RECURSIVE RStrip(_)
RStrip(s) ==
    IF s # <<>> /\ s[Len(s)] \in Whitespace THEN RStrip(SubSeq(s, 1, Len(s) - 1)) ELSE s

Strip(s) == RStrip(LStrip(s))

\* str.split(sep) for a one-character separator
RECURSIVE SplitFrom(_, _, _)
SplitFrom(s, sep, cur) ==
    IF s = <<>> THEN <<cur>>
    ELSE IF Head(s) = sep THEN <<cur>> \o SplitFrom(Tail(s), sep, <<>>)
    ELSE SplitFrom(Tail(s), sep, Append(cur, Head(s)))

Split(s, sep) == SplitFrom(s, sep, <<>>)

\* str.endswith(suffix)
EndsWith(s, suffix) ==
    /\ Len(suffix) <= Len(s)
    /\ SubSeq(s, Len(s) - Len(suffix) + 1, Len(s)) = suffix

\* str.startswith(prefix)
StartsWith(s, prefix) ==
    /\ Len(prefix) <= Len(s)
    /\ SubSeq(s, 1, Len(prefix)) = prefix

\* str.partition(sep)[0] for a one-character separator
RECURSIVE Partition0(_, _)
Partition0(s, sep) ==
    IF s = <<>> \/ Head(s) = sep THEN <<>> ELSE <<Head(s)>> \o Partition0(Tail(s), sep)

\* str < str
RECURSIVE StrLess(_, _)
StrLess(a, b) ==
    IF b = <<>> THEN FALSE
    ELSE IF a = <<>> THEN TRUE
    ELSE IF Head(a) # Head(b) THEN Ord(Head(a)) < Ord(Head(b))
    ELSE StrLess(Tail(a), Tail(b))

\* sorted(<set of str>)
StrMin(S) == CHOOSE x \in S : \A y \in S : y = x \/ StrLess(x, y)

RECURSIVE SortedStrs(_)
SortedStrs(S) ==
    IF S = {} THEN <<>> ELSE <<StrMin(S)>> \o SortedStrs(S \ {StrMin(S)})

----------------------------------------------------------------------------
(* scanning/subdomains.py *)

WORDLIST == <<
    <<"w", "w", "w">>,
    <<"a", "p", "i">>,
    <<"d", "e", "v">>,
    <<"s", "t", "a", "g", "i", "n", "g">>,
    <<"t", "e", "s", "t">>,
    <<"m", "a", "i", "l">>,
    <<"b", "l", "o", "g">>,
    <<"a", "p", "p">>,
    <<"c", "d", "n">>,
    <<"s", "t", "a", "t", "i", "c">> >>

\* str.strip('/')
RECURSIVE StripSlashes(_)
StripSlashes(s) ==
    IF s # <<>> /\ Head(s) = "/" THEN StripSlashes(Tail(s))
    ELSE IF s # <<>> /\ s[Len(s)] = "/" THEN StripSlashes(SubSeq(s, 1, Len(s) - 1))
    ELSE s

\* the host both orchestrators derive from a target given without a scheme:
\* raw = domain.strip(); host = raw.strip('/')
BareHost(domain) == StripSlashes(Strip(domain))

\* the targets typed: "e.c" and, with a capital and stray characters, " E.c/"
Targets == {<<"e", ".", "c">>, <<" ", "E", ".", "c", "/">>}

\* the root domains the orchestrators hand to enumerate_subdomains
RootDomains == {BareHost(t) : t \in Targets}

\* name_value fields a crt.sh entry may carry
CTNameValues == {
    <<"w", "w", "w", ".", "e", ".", "c">>,
    <<"x", "e", ".", "c">>,
    <<"A", "P", "I", ".", "E", ".", "c", "\n", " ", "e", ".", "c", " ">>,
    <<"w", ".", "o", ".", "c">> }

\* how the lookup can go wrong: httpx raises, status_code != 200,
\* json.loads or the walk over the entries raises
CTFailures == {"transport", "status", "parse"}

CTResponses ==
    {[ok |-> FALSE, failure |-> k] : k \in CTFailures}
    \cup {[ok |-> TRUE, data |-> d] : d \in SeqsUpTo(CTNameValues, MaxEntries)}

\* the names _from_crtsh keeps from one name_value
Matches(n, domain) == EndsWith(n, Lower(domain))

NamesOf(name_value, domain) ==
    LET parts == Split(name_value, "\n")
        ns == {Lower(Strip(parts[i])) : i \in DOMAIN parts}
    IN  {n \in ns : Matches(n, domain)}

\* _from_crtsh lets no failure out: "except Exception: return []"
FromCrtshRaisesOnFailure(resp) == ~resp.ok

FromCrtshRaises(resp) == FALSE

\* _from_crtsh: [] on a non-200 status or any exception, else the sorted
\* set of the names kept from all entries
FromCrtsh(domain, resp) ==
    IF ~resp.ok THEN <<>>
    ELSE SortedStrs(UNION {NamesOf(resp.data[i], domain) : i \in DOMAIN resp.data})

\* _from_crtsh over the inputs tried, computed once
FromCrtshTable == [d \in RootDomains, r \in CTResponses |-> FromCrtsh(d, r)]

\* [f"{w}.{root_domain}" for w in WORDLIST]
Candidates(domain, wordlist) ==
    [i \in DOMAIN wordlist |-> wordlist[i] \o <<".">> \o domain]

\* len([c for c in candidates if c in discovered])
CountIn(cands, disc) == Cardinality({i \in DOMAIN cands : cands[i] \in disc})

\* _resolve: True when the A query answers, False on any Exception
\* (NXDOMAIN, SERVFAIL, timeout)
Resolve(i, res) == i \in res

SubdomainsResultDescending(domain, disc, srcs) ==
    [root_domain |-> domain,
     discovered |-> [i \in 1..Cardinality(disc) |->
                        SortedStrs(disc)[Cardinality(disc) + 1 - i]],
     sources |-> srcs]

SubdomainsResult(domain, disc, srcs) ==
    [root_domain |-> domain, discovered |-> SortedStrs(disc), sources |-> srcs]

----------------------------------------------------------------------------
(* Steps of the gathered tasks *)

Units == DOMAIN unit

AllSettled == \A i \in Units : unit[i] \in {"done", "failed"}

InFlight == {i \in Units : unit[i] = "inflight"}

\* First step of a task: "async with semaphore" -> Semaphore.acquire().
\* The event loop runs the tasks' first steps in creation order.
StartUnit(i) ==
    /\ pc = "awaiting"
    /\ unit[i] = "created"
    /\ \A j \in Units : j < i => unit[j] # "created"
    /\ IF Locked(sem, waiters)
         THEN /\ waiters' = Append(waiters, i)
              /\ unit' = [unit EXCEPT ![i] = "waiting"]
              /\ sem' = sem
         ELSE /\ sem' = sem - 1
              /\ unit' = [unit EXCEPT ![i] = "inflight"]
              /\ waiters' = waiters
    /\ UNCHANGED <<probeVars, call, pc, limit, result, settled, ports, conn, ports_list,
                   report, work, subVars,
                   scanVars>>

\* A task leaves the guarded block: by return with value v, or by raise.
LeaveSection(i, how, v) ==
    LET st == IF how = "return" THEN "done" ELSE "failed"
        u1 == [unit EXCEPT ![i] = st]
        u2 == IF ExitReleases(how) /\ waiters # <<>>
                THEN [u1 EXCEPT ![Head(waiters)] = "inflight"]
                ELSE u1
    IN  /\ unit' = (IF how = "raise" THEN OnUnitFailure(u2) ELSE u2)
        /\ sem' = (IF ExitReleases(how) THEN SemAfterRelease(sem, waiters) ELSE sem)
        /\ waiters' = (IF ExitReleases(how) THEN WaitersAfterRelease(waiters) ELSE waiters)
        /\ result' = [result EXCEPT ![i] = v]
        /\ settled' = Append(settled, i)

----------------------------------------------------------------------------
(* scan_ports *)

NoSubdomainState ==
    /\ root_domain = <<>> /\ ct_response = [ok |-> FALSE] /\ resolves = {}
    /\ candidates = <<>> /\ discovered = {} /\ sources = <<>>

NoProbeState ==
    /\ headers = <<>> /\ is_https = TRUE /\ findings = <<>>
    /\ dns_domain = <<>> /\ answers = <<>>
    /\ subdomains = <<>> /\ respond = <<>> /\ requested = <<>> /\ flagged = <<>>

NoScanState ==
    /\ toggles = {} /\ fails = {} /\ tasks = <<>> /\ started = {}
    /\ running = {}
    /\ slots = <<>> /\ clock = 0 /\ started_at = 0 /\ finished_at = 0
    /\ req = <<>> /\ host = <<>> /\ scheme = <<>> /\ base_url = <<>>

InitScanPorts ==
    /\ call = "scan_ports"
    /\ pc = "entry"
    /\ limit \in Limits(DefaultConcurrency)
    /\ ports \in SeqsUpTo(Ports, MaxLen)
    /\ conn \in [Range(ports) -> ConnOutcomes]
    /\ sem = 0 /\ waiters = <<>> /\ unit = <<>> /\ result = <<>>
    /\ settled = <<>> /\ ports_list = <<>> /\ report = NoReport /\ work = <<>>
    /\ NoSubdomainState
    /\ NoScanState
    /\ NoProbeState

\* scan_ports up to the await of gather: ports_list, the semaphore, one
\* scan_one task per port.
ScanPortsDispatch ==
    /\ call = "scan_ports" /\ pc = "entry"
    /\ ports_list' = PortsList(ports)
    /\ sem' = limit
    /\ waiters' = <<>>
    /\ LET us == ScanUnits(PortsList(ports), limit)
       IN  /\ unit' = [i \in DOMAIN us |-> "created"]
           /\ result' = [i \in DOMAIN us |-> NoResult]
    /\ settled' = <<>>
    /\ pc' = "awaiting"
    /\ UNCHANGED <<probeVars, call, limit, ports, conn, report, work, subVars,
                   scanVars>>

\* scan_one(p) after the semaphore: _try_connect returns or raises.
ScanOneFinish(i) ==
    /\ call = "scan_ports"
    /\ unit[i] = "inflight"
    /\ LET p == ports_list[i]
       IN  IF TryConnectRaises(conn[p])
             THEN LeaveSection(i, "raise", NoResult)
             ELSE LeaveSection(i, "return", PortResult(p, TryConnect(conn[p])))
    /\ UNCHANGED <<probeVars, call, pc, limit, ports, conn, ports_list, report, work, subVars,
                   scanVars>>

\* gather delivered all results: build and return the report.
ScanPortsReturn ==
    /\ call = "scan_ports" /\ pc = "awaiting"
    /\ \A i \in Units : unit[i] = "done"
    /\ report' = PortScanResult(ports_list, GatherResults(result, settled))
    /\ pc' = "returned"
    /\ UNCHANGED <<probeVars, call, limit, sem, waiters, unit, result, settled, ports,
                   conn, ports_list, work, subVars,
                   scanVars>>

\* gather delivered the first child's exception: scan_ports propagates it.
\* The caller is resumed after the first step of every task it created.
ScanPortsRaise ==
    /\ call = "scan_ports" /\ pc = "awaiting"
    /\ \E i \in Units : unit[i] = "failed"
    /\ \A i \in Units : unit[i] # "created"
    /\ pc' = "raised"
    /\ UNCHANGED <<probeVars, call, limit, sem, waiters, unit, result, settled, ports,
                   conn, ports_list, report, work, subVars,
                   scanVars>>

----------------------------------------------------------------------------
(* gather_with_concurrency *)

InitGather ==
    /\ call = "gather_with_concurrency"
    /\ pc = "entry"
    /\ limit \in Limits(DefaultConcurrency)
    /\ work \in SeqsUpTo({"return", "raise"}, MaxTasks)
    /\ ports = <<>> /\ conn = <<>>
    /\ sem = 0 /\ waiters = <<>> /\ unit = <<>> /\ result = <<>>
    /\ settled = <<>> /\ ports_list = <<>> /\ report = NoReport
    /\ NoSubdomainState
    /\ NoScanState
    /\ NoProbeState

GatherDispatch ==
    /\ call = "gather_with_concurrency" /\ pc = "entry"
    /\ sem' = limit
    /\ waiters' = <<>>
    /\ unit' = [i \in DOMAIN work |-> "created"]
    /\ result' = [i \in DOMAIN work |-> NoResult]
    /\ settled' = <<>>
    /\ pc' = "awaiting"
    /\ UNCHANGED <<probeVars, call, limit, ports, conn, ports_list, report, work, subVars,
                   scanVars>>

\* sem_task(coro) after the semaphore: "return await coro".
SemTaskFinish(i) ==
    /\ call = "gather_with_concurrency"
    /\ unit[i] = "inflight"
    /\ LeaveSection(i, work[i], IF work[i] = "return" THEN [value |-> i] ELSE NoResult)
    /\ UNCHANGED <<probeVars, call, pc, limit, ports, conn, ports_list, report, work, subVars,
                   scanVars>>

GatherReturn ==
    /\ call = "gather_with_concurrency" /\ pc = "awaiting"
    /\ \A i \in Units : unit[i] = "done"
    /\ report' = GatherResults(result, settled)
    /\ pc' = "returned"
    /\ UNCHANGED <<probeVars, call, limit, sem, waiters, unit, result, settled, ports,
                   conn, ports_list, work, subVars,
                   scanVars>>

GatherRaise ==
    /\ call = "gather_with_concurrency" /\ pc = "awaiting"
    /\ \E i \in Units : unit[i] = "failed"
    /\ \A i \in Units : unit[i] # "created"
    /\ pc' = "raised"
    /\ UNCHANGED <<probeVars, call, limit, sem, waiters, unit, result, settled, ports,
                   conn, ports_list, report, work, subVars,
                   scanVars>>

----------------------------------------------------------------------------
(* enumerate_subdomains *)

InitEnumerate ==
    /\ call = "enumerate_subdomains"
    /\ pc = "entry"
    /\ limit \in Limits(DefaultConcurrentDns)
    /\ root_domain \in RootDomains
    /\ ct_response \in CTResponses
    /\ resolves \in SUBSET (1..MaxWords)
    /\ candidates = <<>> /\ discovered = {} /\ sources = <<>>
    /\ ports = <<>> /\ conn = <<>> /\ ports_list = <<>> /\ work = <<>>
    /\ sem = 0 /\ waiters = <<>> /\ unit = <<>> /\ result = <<>>
    /\ settled = <<>> /\ report = NoReport
    /\ NoScanState
    /\ NoProbeState

\* enumerate_subdomains up to "await _from_crtsh(root_domain)": the request
\* to crt.sh is on its way.
EnumerateBegin ==
    /\ call = "enumerate_subdomains" /\ pc = "entry"
    /\ pc' = "ct"
    /\ UNCHANGED <<probeVars, call, limit, sem, waiters, unit, result, settled, portVars,
                   report, work, subVars,
                   scanVars>>

\* _from_crtsh returned: merge its names, then set up the wordlist sweep
\* up to the await of gather.
FromCrtshReturn ==
    /\ call = "enumerate_subdomains" /\ pc = "ct"
    /\ IF FromCrtshRaises(ct_response)
         THEN /\ pc' = "raised"
              /\ UNCHANGED <<discovered, sources, candidates, unit, result, sem,
                             waiters, settled>>
         ELSE /\ LET ct == FromCrtshTable[root_domain, ct_response]
                     cands == Candidates(root_domain, SubSeq(WORDLIST, 1, MaxWords))
                 IN  /\ discovered' = Range(ct)
                     /\ sources' = [s \in {"crt.sh"} |-> Len(ct)]
                     /\ candidates' = cands
                     /\ unit' = [i \in DOMAIN cands |-> "created"]
                     /\ result' = [i \in DOMAIN cands |-> NoResult]
              /\ sem' = limit
              /\ waiters' = <<>>
              /\ settled' = <<>>
              /\ pc' = "awaiting"
    /\ UNCHANGED <<probeVars, call, limit, portVars, report, work, root_domain, ct_response,
                   resolves,
                   scanVars>>

\* check(name) after the semaphore: _resolve returns True or False (it
\* catches every Exception); a resolved name is added to discovered.
CheckFinish(i) ==
    /\ call = "enumerate_subdomains"
    /\ unit[i] = "inflight"
    /\ discovered' = (IF Resolve(i, resolves) THEN discovered \cup {candidates[i]}
                                               ELSE discovered)
    /\ LeaveSection(i, "return", [value |-> "None"])
    /\ UNCHANGED <<probeVars, call, pc, limit, portVars, report, work, root_domain,
                   ct_response, resolves, candidates, sources,
                   scanVars>>

\* gather returned: count the wordlist yield and return the result.
EnumerateReturn ==
    /\ call = "enumerate_subdomains" /\ pc = "awaiting"
    /\ \A i \in Units : unit[i] = "done"
    /\ LET srcs == [s \in {"crt.sh", "dns-wordlist"} |->
                      IF s = "crt.sh" THEN sources["crt.sh"]
                      ELSE CountIn(candidates, discovered)]
       IN  /\ sources' = srcs
           /\ report' = SubdomainsResult(root_domain, discovered, srcs)
    /\ pc' = "returned"
    /\ UNCHANGED <<probeVars, call, limit, sem, waiters, unit, result, settled, portVars,
                   work, root_domain, ct_response, resolves, candidates, discovered,
                   scanVars>>

----------------------------------------------------------------------------
(* The orchestrators: api.py scan_domain and cli.py domain *)

None == "None"

\* the probes, in the order the domain command runs them
ProbeOrder == <<"subdomains", "ports", "headers", "preview", "takeover",
                "cors", "cookies", "web_fingerprint", "dns_axfr",
                "security_txt", "mixed_content", "dns_extras", "tls", "dns">>

Probes == Range(ProbeOrder)

\* the checks a DomainScanRequest can switch off, named by the probe:
\* scan_subdomains, scan_ports, analyze_headers, analyze_tls, analyze_dns,
\* web_preview, analyze_cors, analyze_cookies, fingerprint_web
ApiToggles == {"subdomains", "ports", "headers", "tls", "dns", "preview",
               "cors", "cookies", "web_fingerprint"}

\* the --x/--no-x options of the domain command
CliToggles == ApiToggles \cup {"security_txt", "mixed_content", "dns_extras"}

\* the fields of DomainScanResult besides domain and the two timestamps
ReportSlots == {"subdomains", "ports", "tls", "headers", "dns", "preview",
                "takeover", "cors", "cookies", "web_fingerprint", "dns_axfr"}

\* What a probe does when its network operation fails.  fetch_preview,
\* analyze_cookies and fingerprint_web have no try; scan_ports lets through
\* what _try_connect does not catch; check_takeover_candidates opens its
\* client outside the per-name try.  Every other probe catches Exception
\* and returns a result object with nothing in it.
ProbeOnFailure(p) ==
    IF p \in {"ports", "preview", "cookies", "web_fingerprint", "takeover"}
      THEN "raise" ELSE "neutral"

ProbeOutcome(p, f) == IF p \in f THEN ProbeOnFailure(p) ELSE "result"

\* "if subdomains and subdomains.discovered": a SubdomainsResult is truthy,
\* its discovered list is empty when neither source found a name
TakeoverGuardAlways(sub) == TRUE

TakeoverGuard(sub) == sub # None /\ sub # "neutral"

\* the try/except around the await of check_takeover_candidates
CallerAbsorbs(p) == p = "takeover"

\* the probes that are plain functions doing blocking socket or resolver
\* calls (get_tls_info, assess_dns, check_dns_axfr, gather_dns_extras); every
\* other probe is a coroutine
BlockingProbes == {"tls", "dns", "dns_axfr", "dns_extras"}

\* the thread the code of probe p runs on when orchestrator c gets to run it:
\* scan_domain wraps the blocking probes in asyncio.to_thread, the command
\* calls them as plain functions from the coroutine _run
ExecutesOn(c, p) ==
    IF c = "scan_domain" /\ p \in BlockingProbes THEN "worker" ELSE "loop"

\* whether the domain command runs probe p when it gets to its line
CliRuns(p, tg, sl) ==
    CASE p = "takeover" -> TakeoverGuard(sl["subdomains"])
      [] p = "dns_axfr" -> TRUE
      [] OTHER -> p \in tg

Index(p) == CHOOSE i \in DOMAIN ProbeOrder : ProbeOrder[i] = p

AfterProbe(p) ==
    IF Index(p) < Len(ProbeOrder) THEN ProbeOrder[Index(p) + 1] ELSE "build"

\* DomainScanResult(...): pydantic ignores the keywords that are no field
DomainScanResult(s, f, kw) ==
    [started_at |-> s, finished_at |-> f, slots |-> [p \in ReportSlots |-> kw[p]]]

(* api.py scan_domain 47-84, cli.py domain._run 120-144 and _resolve_ports *)

HttpPrefix == <<"h", "t", "t", "p", ":", "/", "/">>
HttpsPrefix == <<"h", "t", "t", "p", "s", ":", "/", "/">>

\* raw.startswith("http://") or raw.startswith("https://")
IsUrl(raw) == StartsWith(raw, HttpPrefix) \/ StartsWith(raw, HttpsPrefix)

\* urlparse(raw).scheme, for a raw that IsUrl
UrlScheme(raw) ==
    IF StartsWith(raw, HttpsPrefix) THEN <<"h", "t", "t", "p", "s">> ELSE <<"h", "t", "t", "p">>

\* urlparse(raw).hostname, for a raw that IsUrl, with "" for None: the netloc
\* is what follows "://" up to the first "/", the hostname is the netloc up
\* to its first ":", lowercased.  (None of "?", "#", "@", "[", "%" is among
\* the characters used, so urlparse does not raise and the except branches
\* are not taken.)
UrlHostname(raw) ==
    LET rest == SubSeq(raw, Len(UrlScheme(raw)) + 4, Len(raw))
        netloc == Partition0(rest, "/")
    IN  Lower(Partition0(netloc, ":"))

\* the local "host": raw = domain.strip(), then
\* (urlparse(raw).hostname or raw).strip('/') for a URL, raw.strip('/') otherwise
Host(domain) ==
    LET raw == Strip(domain)
    IN  IF IsUrl(raw)
          THEN StripSlashes(IF UrlHostname(raw) # <<>> THEN UrlHostname(raw) ELSE raw)
          ELSE StripSlashes(raw)

\* {"localhost", "127.0.0.1", "::1"}
Loopback == {<<"l", "o", "c", "a", "l", "h", "o", "s", "t">>,
             <<"1", "2", "7", ".", "0", ".", "0", ".", "1">>,
             <<":", ":", "1">>}

\* the local "scheme" of orchestrator c: the scheme of a URL is kept; for a
\* bare host scan_domain picks http on a loopback host; https otherwise
Scheme(c, domain) ==
    LET raw == Strip(domain)
    IN  IF IsUrl(raw) THEN UrlScheme(raw)
        ELSE IF c = "scan_domain" /\ Host(domain) \in Loopback THEN <<"h", "t", "t", "p">>
        ELSE <<"h", "t", "t", "p", "s">>

\* f"{scheme}://{host}"
BaseUrl(sch, h) == sch \o <<":", "/", "/">> \o h

TOP_30_PORTS == <<21, 22, 23, 25, 53, 80, 110, 111, 135, 139,
                  143, 443, 445, 993, 995, 1723, 3306, 3389, 5900, 8080,
                  8443, 8000, 6379, 27017, 5432, 1521, 5000, 11211, 9200, 25565>>

\* the list the "top100" profile adds
Top100Extra == <<19, 37, 49, 88, 161, 162, 389, 636, 873, 1025,
                 1433, 1521, 2049, 2082, 2083, 2086, 2087, 2483, 2484, 3268,
                 3269, 4444, 5000, 5001, 5060, 5222, 5900, 5985, 5986, 8081,
                 9000, 9090, 9200, 9300, 11211, 27017, 27018, 27019, 6379, 6380>>

\* sorted(set(TOP_30_PORTS + extra))
Top100Ports == SortedSet(Range(TOP_30_PORTS \o Top100Extra))

DigitChars == <<"0", "1", "2", "3", "4", "5", "6", "7", "8", "9">>

DigitVal(c) == (CHOOSE i \in DOMAIN DigitChars : DigitChars[i] = c) - 1

RECURSIVE Decimal(_)
Decimal(s) ==
    IF s = <<>> THEN 0
    ELSE Decimal(SubSeq(s, 1, Len(s) - 1)) * 10 + DigitVal(s[Len(s)])

IsDigits(s) == s # <<>> /\ \A i \in DOMAIN s : s[i] \in Range(DigitChars)

\* whether int(s) returns, for s of digits, "-" and letters: otherwise it
\* raises ValueError
IntParses(s) == IsDigits(s) \/ (s # <<>> /\ Head(s) = "-" /\ IsDigits(Tail(s)))

\* int(s) where it returns
IntOf(s) == IF Head(s) = "-" THEN 0 - Decimal(Tail(s)) ELSE Decimal(s)

\* [x.strip() for x in custom.split(",") if x.strip()]
CsvItems(custom) ==
    LET parts == Split(custom, ",")
        NonEmpty(x) == x # <<>>
    IN  SelectSeq([i \in DOMAIN parts |-> Strip(parts[i])], NonEmpty)

\* _resolve_ports(profile, custom): what it raises, if anything, and what it
\* returns.  An option not given (None) and an empty string are both falsy
\* to "if not custom" and are both the empty sequence here.
ResolvePorts(profile, custom) ==
    CASE profile = "top30" -> [raises |-> None, ports |-> TOP_30_PORTS]
      [] profile = "top100" -> [raises |-> None, ports |-> Top100Ports]
      [] profile = "custom" ->
           IF custom = <<>> THEN [raises |-> "BadParameter", ports |-> <<>>]
           ELSE IF \E i \in DOMAIN CsvItems(custom) : ~IntParses(CsvItems(custom)[i])
             THEN [raises |-> "ValueError", ports |-> <<>>]
           ELSE [raises |-> None,
                 ports |-> [i \in DOMAIN CsvItems(custom) |-> IntOf(CsvItems(custom)[i])]]
      [] OTHER -> [raises |-> "BadParameter", ports |-> <<>>]

\* the ports_list of scan_domain: TOP_30_PORTS unless the profile is "top100"
\* or is "custom" with a non-empty list (None and [] are both falsy to
\* "and req.custom_ports" and are both the empty sequence here)
ApiPortsList(profile, custom) ==
    IF profile = "top100" THEN Top100Ports
    ELSE IF profile = "custom" /\ custom # <<>> THEN SortedSet(Range(custom))
    ELSE TOP_30_PORTS

\* the targets a request is made with: "e.c", " E.c/", "e.c/p", "ftp://e.c",
\* "HTTP://e.c", "http://e.c/p", "https://E.c:80/", "http://", "", " ",
\* "::1" and "localhost"
Domains == Targets \cup {
    <<"e", ".", "c", "/", "p">>,
    <<"f", "t", "p", ":", "/", "/", "e", ".", "c">>,
    <<"H", "T", "T", "P", ":", "/", "/", "e", ".", "c">>,
    <<"h", "t", "t", "p", ":", "/", "/", "e", ".", "c", "/", "p">>,
    <<"h", "t", "t", "p", "s", ":", "/", "/", "E", ".", "c", ":", "8", "0", "/">>,
    <<"h", "t", "t", "p", ":", "/", "/">>,
    <<>>,
    <<" ">>,
    <<":", ":", "1">>,
    <<"l", "o", "c", "a", "l", "h", "o", "s", "t">>}

PortProfiles == {"top30", "top100", "custom", "all"}

\* --custom-ports: not given, ",", "22,80", "80, 80", "0", "70000", "-1", "x"
CliCustomPorts == {<<>>, <<",">>, <<"2", "2", ",", "8", "0">>,
                   <<"8", "0", ",", " ", "8", "0">>, <<"0">>,
                   <<"7", "0", "0", "0", "0">>, <<"-", "1">>, <<"x">>}

\* custom_ports: not given, [22, 80], [443, 22, 443], [0], [70000], [-1]
ApiCustomPorts == {<<>>, <<22, 80>>, <<443, 22, 443>>, <<0>>, <<70000>>, <<0 - 1>>}

\* a scan of "e.c" with every option left as it is
DefaultRequest ==
    [domain |-> <<"e", ".", "c">>, port_profile |-> "top30", custom_ports |-> <<>>]

UpTo(S, n) == {x \in SUBSET S : Cardinality(x) <= n}

NoUnits ==
    /\ limit = 0 /\ sem = 0 /\ waiters = <<>> /\ unit = <<>> /\ result = <<>>
    /\ settled = <<>> /\ ports = <<>> /\ conn = <<>> /\ ports_list = <<>>
    /\ work = <<>> /\ report = NoReport

InitScan(c, tg) ==
    /\ call = c
    /\ pc = "entry"
    /\ toggles \in {tg \ off : off \in UpTo(tg, MaxDisabled)}
    /\ fails \in UpTo(Probes, MaxFailing)
    /\ tasks = <<>> /\ started = {} /\ running = {}
    /\ slots = [p \in Probes |-> None]
    /\ clock = 1 /\ started_at = 0 /\ finished_at = 0
    /\ req = DefaultRequest
    /\ host = <<>> /\ scheme = <<>> /\ base_url = <<>>
    /\ NoUnits
    /\ NoSubdomainState
    /\ NoProbeState

\* orchestrator c called with any target and any port arguments, with the
\* checks tg on or all of them but the subdomain check, and no probe failing
InitRequest(c, tg, customs) ==
    /\ call = c
    /\ pc = "entry"
    /\ toggles \in {tg, tg \ {"subdomains"}}
    /\ fails = {}
    /\ tasks = <<>> /\ started = {} /\ running = {}
    /\ slots = [p \in Probes |-> None]
    /\ clock = 1 /\ started_at = 0 /\ finished_at = 0
    /\ req \in [domain : Domains, port_profile : PortProfiles, custom_ports : customs]
    /\ host = <<>> /\ scheme = <<>> /\ base_url = <<>>
    /\ NoUnits
    /\ NoSubdomainState
    /\ NoProbeState

\* the first lines of both orchestrators: the "started" timestamp, then the
\* host, the scheme and the base URL of the target; nothing here raises
Normalize ==
    /\ call \in {"domain", "scan_domain"} /\ pc = "entry"
    /\ started_at' = clock
    /\ host' = Host(req.domain)
    /\ scheme' = Scheme(call, req.domain)
    /\ base_url' = BaseUrl(scheme', host')
    /\ pc' = "ports_list"
    /\ UNCHANGED <<probeVars, call, limit, sem, waiters, unit, result, settled, portVars,
                   report, work, subVars, toggles, fails, tasks, started, running,
                   slots, clock, finished_at, req>>

\* the "ports_list = ..." lines: the command calls _resolve_ports, whose
\* BadParameter ends the command as a usage error ("rejected") and whose
\* ValueError escapes ("crashed"); scan_domain picks the list inline and
\* raises nothing
ChoosePorts ==
    /\ call \in {"domain", "scan_domain"} /\ pc = "ports_list"
    /\ LET resolved == ResolvePorts(req.port_profile, req.custom_ports)
       IN  IF call = "scan_domain"
             THEN /\ ports_list' = ApiPortsList(req.port_profile, req.custom_ports)
                  /\ pc' = "schedule"
             ELSE /\ ports_list' = resolved.ports
                  /\ pc' = CASE resolved.raises = "BadParameter" -> "rejected"
                              [] resolved.raises = "ValueError" -> "crashed"
                              [] OTHER -> "schedule"
    /\ UNCHANGED <<probeVars, call, limit, sem, waiters, unit, result, settled, ports, conn,
                   report, work, subVars, scanVars>>

(* cli.py: domain._run *)

InitCli == InitScan("domain", CliToggles)

InitCliRequest == InitRequest("domain", CliToggles, CliCustomPorts)

\* from the ports list up to the first await: the coroutine objects.
\* enumerate_subdomains takes no dns_timeout and no http_timeout keyword, so
\* calling it raises TypeError on the spot.
CliDispatch ==
    /\ call = "domain" /\ pc = "schedule"
    /\ pc' = IF "subdomains" \in toggles THEN "raised" ELSE ProbeOrder[1]
    /\ UNCHANGED <<probeVars, call, limit, sem, waiters, unit, result, settled, portVars,
                   report, work, subVars, scanVars>>

\* the probe of the line the command is at begins to run: the awaited
\* coroutine takes its first step, or the plain call is entered
CliStart(p) ==
    /\ call = "domain" /\ pc = p
    /\ CliRuns(p, toggles, slots)
    /\ p \notin running
    /\ started' = started \cup {p}
    /\ running' = running \cup {p}
    /\ UNCHANGED <<probeVars, call, pc, limit, sem, waiters, unit, result, settled, portVars,
                   report, work, subVars, toggles, fails, tasks, slots, clock,
                   started_at, finished_at, reqVars>>

\* one "x = await probe(...) if option else None" line (for takeover the
\* guarded try, for dns_axfr, dns_extras, tls and dns a plain call); the
\* "finished" timestamp is taken after dns_extras, before tls and dns.
CliAwait(p) ==
    /\ call = "domain" /\ pc = p
    /\ CliRuns(p, toggles, slots) => p \in running
    /\ LET runs == CliRuns(p, toggles, slots)
           out == IF runs THEN ProbeOutcome(p, fails) ELSE None
       IN  /\ running' = running \ {p}
           /\ clock' = (IF runs THEN clock + 1 ELSE clock)
           /\ IF out = "raise" /\ ~CallerAbsorbs(p)
                THEN /\ pc' = "raised"
                     /\ UNCHANGED <<slots, finished_at>>
                ELSE /\ slots' = [slots EXCEPT ![p] = IF out = "raise" THEN None ELSE out]
                     /\ pc' = AfterProbe(p)
                     /\ finished_at' = (IF p = "dns_extras" THEN clock' ELSE finished_at)
    /\ UNCHANGED <<probeVars, call, limit, sem, waiters, unit, result, settled, portVars,
                   report, work, subVars, toggles, fails, tasks, started, started_at,
                   reqVars>>

\* the DomainScanResult is built and _run goes on to print and write it
CliReturn ==
    /\ call = "domain" /\ pc = "build"
    /\ report' = DomainScanResult(started_at, finished_at, slots)
    /\ pc' = "returned"
    /\ UNCHANGED <<probeVars, call, limit, sem, waiters, unit, result, settled, portVars,
                   work, subVars, scanVars>>

(* api.py: scan_domain *)

InitApi == InitScan("scan_domain", ApiToggles)

InitApiRequest == InitRequest("scan_domain", ApiToggles, ApiCustomPorts)

\* the probes scan_domain wraps in asyncio.create_task, in source order
ApiTaskOrder == <<"subdomains", "ports", "headers", "preview", "cors",
                  "cookies", "web_fingerprint">>

\* from the ports list up to "req.check_security_txt": one task per enabled
\* check; DomainScanRequest has no field
\* check_security_txt, so the attribute access raises AttributeError before
\* the first await.
ApiDispatch ==
    /\ call = "scan_domain" /\ pc = "schedule"
    /\ LET Enabled(p) == p \in toggles
       IN  tasks' = SelectSeq(ApiTaskOrder, Enabled)
    /\ pc' = "raised"
    /\ UNCHANGED <<probeVars, call, limit, sem, waiters, unit, result, settled, portVars,
                   report, work, subVars, toggles, fails, started, running,
                   slots, clock, started_at, finished_at, reqVars>>

\* the event loop runs the first step of the oldest task that scan_domain
\* left behind
ApiTaskRuns ==
    /\ call = "scan_domain" /\ pc = "raised"
    /\ tasks # <<>>
    /\ started' = started \cup {Head(tasks)}
    /\ running' = running \cup {Head(tasks)}
    /\ tasks' = Tail(tasks)
    /\ clock' = clock + 1
    /\ UNCHANGED <<probeVars, call, pc, limit, sem, waiters, unit, result, settled, portVars,
                   report, work, subVars, toggles, fails, slots, started_at,
                   finished_at, reqVars>>

----------------------------------------------------------------------------
(* scanning/http_headers.py *)

\* sub in s
Contains(s, sub) ==
    \E i \in 1..(Len(s) - Len(sub) + 1) : SubSeq(s, i, i + Len(sub) - 1) = sub

\* the dict SECURITY_HEADERS, in its order: key and recommendation
SECURITY_HEADERS == <<
    [key |-> "content-security-policy",
     rec |-> "Set a strict CSP to mitigate XSS (e.g., default-src 'self')"],
    [key |-> "strict-transport-security",
     rec |-> "Enable HSTS to enforce HTTPS (includeSubDomains; preload)"],
    [key |-> "x-content-type-options",
     rec |-> "Set to nosniff to prevent MIME sniffing"],
    [key |-> "x-frame-options",
     rec |-> "Set to DENY or SAMEORIGIN to mitigate clickjacking"],
    [key |-> "referrer-policy",
     rec |-> "Set to no-referrer or strict-origin-when-cross-origin"],
    [key |-> "permissions-policy",
     rec |-> "Restrict powerful browser features"] >>

\* the header names as servers usually spell them, in the same order
TitleNames == <<"Content-Security-Policy", "Strict-Transport-Security",
                "X-Content-Type-Options", "X-Frame-Options", "Referrer-Policy",
                "Permissions-Policy">>

\* k.lower() for a header name: the spelled names map to the keys, a key to
\* itself
NameLower(k) ==
    IF \E i \in DOMAIN TitleNames : TitleNames[i] = k
      THEN SECURITY_HEADERS[CHOOSE i \in DOMAIN TitleNames : TitleNames[i] = k].key
      ELSE k

\* {k.lower(): v for k, v in headers.items()} (no two names of a map given
\* here lowercase to the same key)
LowerKeys(hs) ==
    [k \in {NameLower(n) : n \in DOMAIN hs} |->
        hs[CHOOSE n \in DOMAIN hs : NameLower(n) = k]]

HeaderFinding(h, p, r) == [header |-> h, present |-> p, recommendation |-> r]

\* the index of the first character of s[from..] that is not whitespace
RECURSIVE SkipSpace(_, _)
SkipSpace(s, from) ==
    IF from <= Len(s) /\ s[from] \in Whitespace THEN SkipSpace(s, from + 1) ELSE from

\* the longest run of digits of s that starts at from
RECURSIVE DigitRun(_, _)
DigitRun(s, from) ==
    IF from <= Len(s) /\ s[from] \in Range(DigitChars)
      THEN <<s[from]>> \o DigitRun(s, from + 1)
      ELSE <<>>

\* where re.search(r"max-age\s*=\s*(\d+)", s) can match: "max-age" at i,
\* then "=" and a digit, whitespace allowed around the "="
MaxAgeMatchesAt(s, i) ==
    /\ i + 6 <= Len(s)
    /\ SubSeq(s, i, i + 6) = <<"m", "a", "x", "-", "a", "g", "e">>
    /\ LET e == SkipSpace(s, i + 7)
       IN  /\ e <= Len(s) /\ s[e] = "="
           /\ DigitRun(s, SkipSpace(s, e + 1)) # <<>>

\* group(1) of the leftmost match, as a sequence holding the int, or <<>>
\* when nothing matches
MaxAge(s) ==
    LET at == {i \in DOMAIN s : MaxAgeMatchesAt(s, i)}
    IN  IF at = {} THEN <<>>
        ELSE LET i == SetMin(at)
             IN  <<Decimal(DigitRun(s, SkipSpace(s, SkipSpace(s, i + 7) + 1)))>>

\* "Improve HSTS: " + ", ".join(missing_parts)
ImproveHsts(include_ok, preload_ok, max_age_ok) ==
    CASE ~include_ok /\ ~preload_ok /\ ~max_age_ok ->
           "Improve HSTS: includeSubDomains, preload, max-age>=15552000"
      [] ~include_ok /\ ~preload_ok /\ max_age_ok ->
           "Improve HSTS: includeSubDomains, preload"
      [] ~include_ok /\ preload_ok /\ ~max_age_ok ->
           "Improve HSTS: includeSubDomains, max-age>=15552000"
      [] ~include_ok /\ preload_ok /\ max_age_ok ->
           "Improve HSTS: includeSubDomains"
      [] include_ok /\ ~preload_ok /\ ~max_age_ok ->
           "Improve HSTS: preload, max-age>=15552000"
      [] include_ok /\ ~preload_ok /\ max_age_ok ->
           "Improve HSTS: preload"
      [] OTHER -> "Improve HSTS: max-age>=15552000"

\* 180 days, in seconds
MinMaxAge == 15552000

\* evaluate_security_headers(headers, is_https=...): the findings, baseline
\* presence first, then one block per quality check, in source order
EvaluateSecurityHeaders(hs, https) ==
    LET lower == LowerKeys(hs)
        Has(k) == k \in DOMAIN lower
        Val(k) == Lower(Strip(lower[k]))
        If(c, f) == IF c THEN <<f>> ELSE <<>>
        baseline ==
            [i \in DOMAIN SECURITY_HEADERS |->
                HeaderFinding(SECURITY_HEADERS[i].key, Has(SECURITY_HEADERS[i].key),
                              IF Has(SECURITY_HEADERS[i].key) THEN None
                              ELSE SECURITY_HEADERS[i].rec)]
        csp ==
            IF ~Has("content-security-policy") THEN <<>>
            ELSE LET v == Lower(lower["content-security-policy"])
                 IN  If(Contains(v, <<"u", "n", "s", "a", "f", "e", "-", "i", "n", "l", "i", "n", "e">>) \/ Contains(v, <<"*">>),
                        HeaderFinding("content-security-policy", TRUE,
                            "Avoid wildcard or unsafe-inline in CSP for stricter policy"))
                     \o If(~Contains(v, <<"d", "e", "f", "a", "u", "l", "t", "-", "s", "r", "c">>),
                           HeaderFinding("content-security-policy", TRUE,
                               "Define a base policy (e.g., default-src 'self')"))
        hsts ==
            IF ~(https /\ Has("strict-transport-security")) THEN <<>>
            ELSE LET v == Lower(lower["strict-transport-security"])
                     include_ok == Contains(v, <<"i", "n", "c", "l", "u", "d", "e", "s", "u", "b", "d", "o", "m", "a", "i", "n", "s">>)
                     preload_ok == Contains(v, <<"p", "r", "e", "l", "o", "a", "d">>)
                     max_age_ok == MaxAge(v) = <<>> \/ MaxAge(v)[1] >= MinMaxAge
                 IN  If(~include_ok \/ ~preload_ok \/ ~max_age_ok,
                        HeaderFinding("strict-transport-security", TRUE,
                            ImproveHsts(include_ok, preload_ok, max_age_ok)))
        xcto ==
            IF ~Has("x-content-type-options") THEN <<>>
            ELSE If(Val("x-content-type-options") # <<"n", "o", "s", "n", "i", "f", "f">>,
                    HeaderFinding("x-content-type-options", TRUE,
                        "Set X-Content-Type-Options to nosniff"))
        xfo ==
            IF ~Has("x-frame-options") THEN <<>>
            ELSE If(Val("x-frame-options") \notin {<<"d", "e", "n", "y">>,
                                                  <<"s", "a", "m", "e", "o", "r", "i", "g", "i", "n">>},
                    HeaderFinding("x-frame-options", TRUE,
                        "Use DENY or SAMEORIGIN for X-Frame-Options"))
        rp ==
            IF ~Has("referrer-policy") THEN <<>>
            ELSE If(Val("referrer-policy") \notin
                        {<<"n", "o", "-", "r", "e", "f", "e", "r", "r", "e", "r">>,
                         <<"s", "t", "r", "i", "c", "t", "-", "o", "r", "i", "g", "i", "n", "-", "w", "h", "e", "n", "-", "c", "r", "o", "s", "s", "-", "o", "r", "i", "g", "i", "n">>},
                    HeaderFinding("referrer-policy", TRUE,
                        "Prefer no-referrer or strict-origin-when-cross-origin"))
        pp ==
            IF ~Has("permissions-policy") THEN <<>>
            ELSE LET v == Val("permissions-policy")
                 IN  If(v = <<>> \/ Contains(v, <<"*">>)
                           \/ Contains(v, <<"=", "(", "*", ")">>),
                        HeaderFinding("permissions-policy", TRUE,
                            "Tighten Permissions-Policy (avoid wildcards; disable features by default)"))
        http ==
            If(~https, HeaderFinding("strict-transport-security", FALSE,
                                     "Serve over HTTPS and enable HSTS"))
    IN  baseline \o csp \o hsts \o xcto \o xfo \o rp \o pp \o http

\* sum(1 for f in findings if f.recommendation is None and f.present)
PresentCount(fs) ==
    Cardinality({i \in DOMAIN fs : fs[i].recommendation = None /\ fs[i].present})

DeductionsOfPresentOnly(fs) ==
    Cardinality({i \in DOMAIN fs : fs[i].recommendation # None /\ fs[i].present})

\* sum(1 for f in findings if f.recommendation is not None)
Deductions(fs) ==
    Cardinality({i \in DOMAIN fs : fs[i].recommendation # None})

PenaltyOfTen(n) == n * 10

\* what n deductions take off the score
Penalty(n) == n * 5

Max(a, b) == IF a >= b THEN a ELSE b

\* max(0, min(100, int((present / total) * 100) - deductions * 5)); the int()
\* of the float is the integer quotient for each of 0..6 over 6
RawScore(fs) ==
    Max(0, Min(100, (PresentCount(fs) * 100) \div Len(SECURITY_HEADERS)
                      - Penalty(Deductions(fs))))

GradeOf(raw_score) ==
    CASE raw_score >= 95 -> "A+"
      [] raw_score >= 90 -> "A"
      [] raw_score >= 80 -> "B"
      [] raw_score >= 70 -> "C"
      [] raw_score >= 60 -> "D"
      [] OTHER -> "F"

\* _grade_from_findings(findings)
GradeFromFindings(fs) == [grade |-> GradeOf(RawScore(fs)), score |-> RawScore(fs)]

\* the values each header is given; <<>> in a choice is the header left out
CspValues == {<<"d", "e", "f", "a", "u", "l", "t", "-", "s", "r", "c", " ", "'", "s", "e", "l", "f", "'">>,
              <<"d", "e", "f", "a", "u", "l", "t", "-", "s", "r", "c", " ", "*">>,
              <<"s", "c", "r", "i", "p", "t", "-", "s", "r", "c", " ", "'", "u", "n", "s", "a", "f", "e", "-", "i", "n", "l", "i", "n", "e", "'">>}

HstsValues == {<<"m", "a", "x", "-", "a", "g", "e", "=", "6", "3", "0", "7", "2", "0", "0", "0", ";", " ", "i", "n", "c", "l", "u", "d", "e", "S", "u", "b", "D", "o", "m", "a", "i", "n", "s", ";", " ", "p", "r", "e", "l", "o", "a", "d">>,
               <<"m", "a", "x", "-", "a", "g", "e", " ", "=", " ", "3", "0", "0", ";", " ", "i", "n", "c", "l", "u", "d", "e", "S", "u", "b", "D", "o", "m", "a", "i", "n", "s", ";", " ", "p", "r", "e", "l", "o", "a", "d">>,
               <<"i", "n", "c", "l", "u", "d", "e", "S", "u", "b", "D", "o", "m", "a", "i", "n", "s">>}

XctoValues == {<<"n", "o", "s", "n", "i", "f", "f">>,
               <<" ", "N", "o", "S", "n", "i", "f", "f", " ">>,
               <<"s", "n", "i", "f", "f">>}

XfoValues == {<<"D", "E", "N", "Y">>, <<"A", "L", "L", "O", "W", "A", "L", "L">>}

ReferrerValues == {<<"n", "o", "-", "r", "e", "f", "e", "r", "r", "e", "r">>,
                   <<"s", "a", "m", "e", "-", "o", "r", "i", "g", "i", "n">>,
                   <<"u", "n", "s", "a", "f", "e", "-", "u", "r", "l">>}

PermissionsValues == {<<"c", "a", "m", "e", "r", "a", "=", "(", ")">>,
                      <<"c", "a", "m", "e", "r", "a", "=", "*">>,
                      <<>>}

\* a header left out, or present with one of its values
Choices(vals) == {<<>>} \cup {<<v>> : v \in vals}

\* the header map of a response: the headers chosen, their names spelled as
\* servers do or all in lower case
HeaderMap(spelled, ch) ==
    LET Name(i) == IF spelled THEN TitleNames[i] ELSE SECURITY_HEADERS[i].key
        Pos(n) == CHOOSE i \in DOMAIN ch : Name(i) = n
    IN  [n \in {Name(i) : i \in {j \in DOMAIN ch : ch[j] # <<>>}} |-> ch[Pos(n)][1]]

InitHeaders ==
    /\ call = "evaluate_security_headers"
    /\ pc = "entry"
    /\ \E spelled \in BOOLEAN, c1 \in Choices(CspValues), c2 \in Choices(HstsValues),
          c3 \in Choices(XctoValues), c4 \in Choices(XfoValues),
          c5 \in Choices(ReferrerValues), c6 \in Choices(PermissionsValues) :
          headers = HeaderMap(spelled, <<c1, c2, c3, c4, c5, c6>>)
    /\ is_https \in BOOLEAN
    /\ findings = <<>>
    /\ dns_domain = <<>> /\ answers = <<>>
    /\ subdomains = <<>> /\ respond = <<>> /\ requested = <<>> /\ flagged = <<>>
    /\ NoUnits
    /\ NoSubdomainState
    /\ NoScanState

\* findings = evaluate_security_headers(headers, is_https=is_https)
EvaluateHeaders ==
    /\ call = "evaluate_security_headers" /\ pc = "entry"
    /\ findings' = EvaluateSecurityHeaders(headers, is_https)
    /\ pc' = "evaluated"
    /\ UNCHANGED <<call, limit, sem, waiters, unit, result, settled, portVars,
                   report, work, subVars, scanVars, headers, is_https,
                   dns_domain, answers, subdomains, respond, requested, flagged>>

\* grade, score = _grade_from_findings(findings)
GradeHeaders ==
    /\ call = "evaluate_security_headers" /\ pc = "evaluated"
    /\ report' = GradeFromFindings(findings)
    /\ pc' = "returned"
    /\ UNCHANGED <<call, limit, sem, waiters, unit, result, settled, portVars,
                   work, subVars, scanVars, probeVars>>

NextHeaders == EvaluateHeaders \/ GradeHeaders

HeadersSpec == InitHeaders /\ [][NextHeaders]_vars

----------------------------------------------------------------------------
(* scanning/dns_records.py *)

\* how many TXT records an answer holds at most
MaxRecords == 2

\* Optional[str]: <<>> is None, <<v>> the string v
Nothing == <<>>

Some(v) == <<v>>

\* b"".join(rdata.strings).decode(...) for the strings of one TXT record
RECURSIVE JoinStrings(_)
JoinStrings(strings) ==
    IF strings = <<>> THEN <<>> ELSE Head(strings) \o JoinStrings(Tail(strings))

\* dns.resolver.resolve(domain, rtype): <<>> when it raises, <<rdatas>> when
\* it answers
DnsResolve(rtype) == answers[rtype]

\* _txt_values(domain)
TxtValues ==
    IF DnsResolve("TXT") = <<>> THEN <<>>
    ELSE [i \in DOMAIN DnsResolve("TXT")[1] |-> JoinStrings(DnsResolve("TXT")[1][i])]

\* _records(domain, rtype); to_text() of an address or exchange record is
\* the text it is given as here
Records(rtype) == IF DnsResolve(rtype) = <<>> THEN <<>> ELSE DnsResolve(rtype)[1]

\* next(v for v in txt_records if v.lower().startswith(prefix)), as <<>> or <<v>>
FirstRecord(txt_records, prefix) ==
    LET at == {i \in DOMAIN txt_records : StartsWith(Lower(txt_records[i]), prefix)}
    IN  IF at = {} THEN <<>> ELSE <<txt_records[SetMin(at)]>>

\* the qualifiers looked for, in the order of the loop
SpfQualifiers == <<<<"-", "a", "l", "l">>, <<"~", "a", "l", "l">>,
                   <<"?", "a", "l", "l">>, <<"+", "a", "l", "l">>>>

\* the first qualifier that is in spf, or None
SpfPolicy(spf) ==
    LET at == {i \in DOMAIN SpfQualifiers : Contains(spf, SpfQualifiers[i])}
    IN  IF at = {} THEN Nothing ELSE Some(SpfQualifiers[SetMin(at)])

\* s.split(sep, 1)[1], for s with sep in it
AfterFirst(s, sep) == SubSeq(s, Len(Partition0(s, sep)) + 2, Len(s))

\* tok.split("=", 1)[1] of the last tag of the record whose stripped lowercase
\* form starts with "p="
RECURSIVE LastPolicy(_, _)
LastPolicy(toks, dmarc_policy) ==
    IF toks = <<>> THEN dmarc_policy
    ELSE LET tok == Lower(Strip(Head(toks)))
         IN  LastPolicy(Tail(toks),
                        IF StartsWith(tok, <<"p", "=">>) THEN Some(AfterFirst(tok, "="))
                        ELSE dmarc_policy)

\* for tok in dmarc.split(";"): ...
DmarcPolicy(dmarc) == LastPolicy(Split(dmarc, ";"), Nothing)

\* assess_dns(domain)
DnsAssessment(domain) ==
    LET txt_records == TxtValues
        spf == FirstRecord(txt_records, <<"v", "=", "s", "p", "f", "1">>)
        spf_present == spf # <<>>
        spf_policy == IF spf_present THEN SpfPolicy(spf[1]) ELSE Nothing
        dmarc == FirstRecord(txt_records, <<"v", "=", "d", "m", "a", "r", "c", "1">>)
        dmarc_present == dmarc # <<>>
        dmarc_policy == IF dmarc_present THEN DmarcPolicy(dmarc[1]) ELSE Nothing
    IN  [domain |-> domain,
         a_records |-> Records("A"),
         aaaa_records |-> Records("AAAA"),
         mx_records |-> Records("MX"),
         txt_records |-> txt_records,
         spf_present |-> spf_present,
         spf_policy |-> spf_policy,
         spf_recommendation |->
             IF spf_present /\ spf_policy \in {Some(<<"?", "a", "l", "l">>),
                                               Some(<<"+", "a", "l", "l">>), Nothing}
               THEN "Tighten SPF policy to -all or ~all" ELSE None,
         dmarc_present |-> dmarc_present,
         dmarc_policy |-> dmarc_policy,
         dmarc_recommendation |->
             IF dmarc_present /\ dmarc_policy \in {Nothing, Some(<<"n", "o", "n", "e">>)}
               THEN "Set DMARC policy to quarantine or reject" ELSE None]

\* the TXT records a zone is given here, each as the strings of its rdata
TxtRdatas == {
    <<<<"v", "=", "s", "p", "f", "1", " ", "-", "a", "l", "l">>>>,
    <<<<"v", "=", "s", "p", "f", "1", " ", "i", "n", "c", "l", "u", "d", "e", ":", "x", " ", "?", "a", "l", "l">>>>,
    <<<<"v", "=", "D", "M", "A", "R", "C", "1", ";", " ", "p", "=", "r", "e", "j", "e", "c", "t">>>>,
    <<<<"v", "=", "D", "M", "A", "R", "C", "1", ";", " ", "p", "=", "q", "u", "a", "r">>,
      <<"a", "n", "t", "i", "n", "e", ";", " ", "s", "p", "=", "n", "o", "n", "e">>>>,
    <<<<"v", "=", "D", "M", "A", "R", "C", "1", ";", " ", "p", "=", "N", "o", "n", "e">>>>,
    <<<<"v", "=", "D", "M", "A", "R", "C", "1", ";", " ", "p", "c", "t", "=", "5", "0">>>>,
    <<<<"v", "=", "D", "M", "A", "R", "C", "1", ";", " ", "p", "=", "m", "o", "n", "i", "t", "o", "r">>>>,
    <<<<"v", "e", "r", "i", "f", "i", "c", "a", "t", "i", "o", "n", "=", "x">>>> }

\* what resolve gives for an address or exchange lookup: it raises, or it
\* answers with one record
RecordAnswers(text) == {<<>>, <<<<text>>>>}

InitDns ==
    /\ call = "assess_dns"
    /\ pc = "entry"
    /\ dns_domain \in {"example.com", "example.org"}
    /\ \E a \in RecordAnswers("192.0.2.1"), aaaa \in RecordAnswers("2001:db8::1"),
          mx \in RecordAnswers("10 mail.example.com."),
          txt \in {<<>>} \cup {<<rs>> : rs \in SeqsUpTo(TxtRdatas, MaxRecords) \ {<<>>}} :
          answers = [rtype \in {"A", "AAAA", "MX", "TXT"} |->
                        CASE rtype = "A" -> a
                          [] rtype = "AAAA" -> aaaa
                          [] rtype = "MX" -> mx
                          [] OTHER -> txt]
    /\ headers = <<>> /\ is_https = TRUE /\ findings = <<>>
    /\ subdomains = <<>> /\ respond = <<>> /\ requested = <<>> /\ flagged = <<>>
    /\ NoUnits
    /\ NoSubdomainState
    /\ NoScanState

\* the whole of assess_dns: four lookups, each failure an empty list, then
\* the SPF and DMARC readings
AssessDns ==
    /\ call = "assess_dns" /\ pc = "entry"
    /\ report' = DnsAssessment(dns_domain)
    /\ pc' = "returned"
    /\ UNCHANGED <<call, limit, sem, waiters, unit, result, settled, portVars,
                   work, subVars, scanVars, probeVars>>

NextDns == AssessDns

DnsSpec == InitDns /\ [][NextDns]_vars

----------------------------------------------------------------------------
(* scanning/takeover.py *)

\* how many names a short candidate list holds at most
MaxNames == 2

\* the cap on the names probed
TakeoverCap == 200

\* SIGNATURES, in order: each phrase with its vendor
SIGNATURES == <<
    [phrase |-> "There isn't a GitHub Pages site here.", vendor |-> "GitHub Pages"],
    [phrase |-> "NoSuchBucket", vendor |-> "AWS S3"],
    [phrase |-> "The specified bucket does not exist", vendor |-> "AWS S3"],
    [phrase |-> "NoSuchDomain", vendor |-> "Azure"],
    [phrase |-> "Heroku | No such app", vendor |-> "Heroku"],
    [phrase |-> "There's nothing here, yet.", vendor |-> "Fastly/Netlify"] >>

\* f"Potential takeover signature: {vendor}"
Reason(vendor) ==
    CASE vendor = "GitHub Pages" -> "Potential takeover signature: GitHub Pages"
      [] vendor = "AWS S3" -> "Potential takeover signature: AWS S3"
      [] vendor = "Azure" -> "Potential takeover signature: Azure"
      [] vendor = "Heroku" -> "Potential takeover signature: Heroku"
      [] OTHER -> "Potential takeover signature: Fastly/Netlify"

TakeoverFinding(sub, reason) == [subdomain |-> sub, reason |-> reason]

\* what the GET for a name does: it raises, or it answers with a text;
\* phrases is the set of signatures (by position) found in text[:8000]
Response(raises, phrases) == [raises |-> raises, phrases |-> phrases]

CappedNot(subs) == subs

\* subdomains[:200]
Capped(subs) == SubSeq(subs, 1, Min(Len(subs), TakeoverCap))

\* the body of the try for one name: the finding for the first signature in
\* the body, then break; nothing when the GET raises or no phrase is found
FindingsFor(sub, resp) ==
    IF resp.raises \/ resp.phrases = {} THEN <<>>
    ELSE <<TakeoverFinding(sub, Reason(SIGNATURES[SetMin(resp.phrases)].vendor))>>

\* the responses given to the names of a short list, and to the chosen
\* names of a long one
Responses == {Response(TRUE, {}), Response(FALSE, {}), Response(FALSE, {1}),
              Response(FALSE, {2, 3})}

LongResponses == {Response(TRUE, {}), Response(FALSE, {}), Response(FALSE, {2, 3})}

\* the candidate lists: every short list, repeats included, and the lists of
\* distinct names around the cap
ShortLists == SeqsUpTo(1..MaxNames, MaxNames)

LongLists == {[i \in 1..n |-> i] : n \in (TakeoverCap - 1)..(TakeoverCap + 1)}

\* the positions of a long list whose response varies: the first, the last
\* under the cap and the last
Chosen(subs) == {1, Min(Len(subs), TakeoverCap), Len(subs)}

InitTakeover ==
    /\ call = "check_takeover_candidates"
    /\ pc = "entry"
    /\ \/ /\ subdomains \in ShortLists
          /\ respond \in [DOMAIN subdomains -> Responses]
       \/ /\ subdomains \in LongLists
          /\ \E r \in [Chosen(subdomains) -> LongResponses] :
                respond = [i \in DOMAIN subdomains |->
                              IF i \in Chosen(subdomains) THEN r[i]
                              ELSE Response(FALSE, {})]
    /\ requested = <<>>
    /\ flagged = <<>>
    /\ headers = <<>> /\ is_https = TRUE /\ findings = <<>>
    /\ dns_domain = <<>> /\ answers = <<>>
    /\ NoUnits
    /\ NoSubdomainState
    /\ NoScanState

\* flagged = []; the client is opened
TakeoverBegin ==
    /\ call = "check_takeover_candidates" /\ pc = "entry"
    /\ flagged' = <<>>
    /\ pc' = "loop"
    /\ UNCHANGED <<call, limit, sem, waiters, unit, result, settled, portVars,
                   report, work, subVars, scanVars, headers, is_https, findings,
                   dns_domain, answers, subdomains, respond, requested>>

\* one turn of the loop: the GET for the next name, awaited before the next
\* turn; an exception is swallowed by `except Exception: continue`
TakeoverProbe ==
    /\ call = "check_takeover_candidates" /\ pc = "loop"
    /\ Len(requested) < Len(Capped(subdomains))
    /\ LET i == Len(requested) + 1
           sub == Capped(subdomains)[i]
       IN  /\ requested' = Append(requested, sub)
           /\ flagged' = flagged \o FindingsFor(sub, respond[i])
    /\ UNCHANGED <<call, pc, limit, sem, waiters, unit, result, settled, portVars,
                   report, work, subVars, scanVars, headers, is_https, findings,
                   dns_domain, answers, subdomains, respond>>

\* return TakeoverAssessment(checked_count=min(len(subdomains), 200), ...)
TakeoverReturn ==
    /\ call = "check_takeover_candidates" /\ pc = "loop"
    /\ Len(requested) = Len(Capped(subdomains))
    /\ report' = [checked_count |-> Min(Len(subdomains), 200), flagged |-> flagged]
    /\ pc' = "returned"
    /\ UNCHANGED <<call, limit, sem, waiters, unit, result, settled, portVars,
                   work, subVars, scanVars, probeVars>>

NextTakeover == TakeoverBegin \/ TakeoverProbe \/ TakeoverReturn

TakeoverSpec == InitTakeover /\ [][NextTakeover]_vars

----------------------------------------------------------------------------

\* the library functions: scan_ports, gather_with_concurrency and
\* enumerate_subdomains, each called on its own
Init == InitScanPorts \/ InitGather \/ InitEnumerate

Next ==
    \/ ScanPortsDispatch
    \/ \E i \in Units : StartUnit(i)
    \/ \E i \in Units : ScanOneFinish(i)
    \/ ScanPortsReturn
    \/ ScanPortsRaise
    \/ GatherDispatch
    \/ \E i \in Units : SemTaskFinish(i)
    \/ GatherReturn
    \/ GatherRaise
    \/ EnumerateBegin
    \/ FromCrtshReturn
    \/ \E i \in Units : CheckFinish(i)
    \/ EnumerateReturn

Spec == Init /\ [][Next]_vars

\* gather_with_concurrency alone, with the event loop running every task
\* that is ready and every awaited coroutine eventually finishing.
NextGather ==
    \/ GatherDispatch
    \/ \E i \in Units : StartUnit(i)
    \/ \E i \in Units : SemTaskFinish(i)
    \/ GatherReturn
    \/ GatherRaise

FairGatherSpec == InitGather /\ [][NextGather]_vars /\ WF_vars(NextGather)

\* scan_ports called with any limit asyncio.Semaphore accepts: the domain
\* command demands --concurrency >= 1, the interactive command prompts for
\* an int without a minimum and passes it on, so 0 gets through.  The ports
\* are given without duplicates, in ascending order.
InitScanPortsAnyLimit ==
    /\ call = "scan_ports"
    /\ pc = "entry"
    /\ limit \in {0} \cup Limits(DefaultConcurrency)
    /\ ports \in {SortedSet(S) : S \in SUBSET Ports}
    /\ conn \in [Range(ports) -> ConnOutcomes]
    /\ sem = 0 /\ waiters = <<>> /\ unit = <<>> /\ result = <<>>
    /\ settled = <<>> /\ ports_list = <<>> /\ report = NoReport /\ work = <<>>
    /\ NoSubdomainState
    /\ NoScanState
    /\ NoProbeState

\* scan_ports alone, with the event loop running every task that is ready
\* and every connect attempt ending (wait_for with the timeout)
NextScanPorts ==
    \/ ScanPortsDispatch
    \/ \E i \in Units : StartUnit(i)
    \/ \E i \in Units : ScanOneFinish(i)
    \/ ScanPortsReturn
    \/ ScanPortsRaise

FairScanPortsSpec ==
    InitScanPortsAnyLimit /\ [][NextScanPorts]_vars /\ WF_vars(NextScanPorts)

\* enumerate_subdomains alone, under the same scheduling: the crt.sh
\* request ends (httpx timeout 8.0) and so does every DNS query (lifetime).
NextEnumerate ==
    \/ EnumerateBegin
    \/ FromCrtshReturn
    \/ \E i \in Units : StartUnit(i)
    \/ \E i \in Units : CheckFinish(i)
    \/ EnumerateReturn

FairEnumerateSpec ==
    InitEnumerate /\ [][NextEnumerate]_vars /\ WF_vars(NextEnumerate)

\* the orchestrators, with the probes as single steps: the event loop runs
\* what is ready and every probe ends (each has a timeout)
NextScan ==
    \/ Normalize
    \/ ChoosePorts
    \/ CliDispatch
    \/ \E p \in Probes : CliStart(p)
    \/ \E p \in Probes : CliAwait(p)
    \/ CliReturn
    \/ ApiDispatch
    \/ ApiTaskRuns

ScanSpec ==
    (InitCli \/ InitApi \/ InitCliRequest \/ InitApiRequest) /\ [][NextScan]_vars

FairScanSpec == (InitCli \/ InitApi) /\ [][NextScan]_vars /\ WF_vars(NextScan)

----------------------------------------------------------------------------
(* Properties *)

Returned(c) == call = c /\ pc = "returned"

Before(order, i, j) ==
    \E a, b \in DOMAIN order : a < b /\ order[a] = i /\ order[b] = j

StrictlyAscending(s) == \A a, b \in DOMAIN s : a < b => s[a] < s[b]

\* C1: for a limit L >= 1, in every reachable state of scan_ports,
\* enumerate_subdomains and gather_with_concurrency at most L units are
\* inside the semaphore-guarded section, however many are queued.
AtMostLimitInFlight == limit >= 1 => Cardinality(InFlight) <= limit

WitnessQueuedBehindFullSection ==
    /\ Cardinality(InFlight) = limit
    /\ waiters # <<>>

\* C2: the scheduler call hands control back to its caller (result or
\* error) only once every submitted unit has completed or failed.
ReturnsOnlyWhenAllSettled == pc \in {"returned", "raised"} => AllSettled

\* C3: a failing unit cancels no sibling: no unit is ever cancelled, and
\* once a unit has failed every unit still reaches completion or failure.
NoSiblingCancelled ==
    /\ [](\A i \in Units : unit[i] # "cancelled")
    /\ ((\E i \in Units : unit[i] = "failed") ~> AllSettled)

WitnessSiblingFinishedAfterFailure ==
    /\ call = "gather_with_concurrency"
    /\ \E i, j \in Units :
          /\ unit[i] = "failed" /\ unit[j] = "done"
          /\ Before(settled, i, j)

\* C4: every way out of the guarded section gives back exactly the slot
\* taken: free slots stay within 0..L, free + in-flight = L, and all L
\* slots are free again once every unit has settled.
SlotsConserved ==
    (limit >= 1 /\ pc \in {"awaiting", "returned", "raised"}) =>
        /\ sem \in 0..limit
        /\ sem + Cardinality(InFlight) = limit
        /\ AllSettled => sem = limit

WitnessSlotFreedByFailure ==
    /\ AllSettled
    /\ \E i \in Units : unit[i] = "failed"
    /\ Len(settled) > limit
    /\ sem = limit

\* C5: ports_scanned of the returned report is the ascending,
\* duplicate-free list of the elements of the ports argument.
PortsScannedSortedUnique ==
    Returned("scan_ports") =>
        /\ StrictlyAscending(report.ports_scanned)
        /\ Range(report.ports_scanned) = Range(ports)

WitnessUnorderedDuplicatedPorts ==
    /\ Returned("scan_ports")
    /\ Len(report.ports_scanned) >= 2
    /\ Len(ports) > Len(report.ports_scanned)
    /\ \E a, b \in DOMAIN ports : a < b /\ ports[a] > ports[b]

\* C6: in the returned report open_ports is within ports_scanned and is
\* exactly the ports of the outcomes with is_open true, in the outcomes'
\* order.
OpenPortsAreTheOpenOutcomes ==
    Returned("scan_ports") =>
        LET rs == report.results
            op == report.open_ports
            IndexOf(p) == CHOOSE i \in DOMAIN rs : rs[i].port = p
        IN  /\ Range(op) \subseteq Range(report.ports_scanned)
            /\ \A i \in DOMAIN rs : rs[i].is_open <=> rs[i].port \in Range(op)
            /\ Len(op) = Cardinality({i \in DOMAIN rs : rs[i].is_open})
            /\ \A a, b \in DOMAIN op : a < b => IndexOf(op[a]) < IndexOf(op[b])

WitnessOpenAndClosedOutcomes ==
    /\ Returned("scan_ports")
    /\ \E i, j \in DOMAIN report.results :
          report.results[i].is_open /\ ~report.results[j].is_open

\* C7: open_ports of the returned report is in ascending port order,
\* whatever the order in which the connect attempts finished.
OpenPortsAscending ==
    Returned("scan_ports") => StrictlyAscending(report.open_ports)

WitnessOpenPortsFinishedOutOfOrder ==
    /\ Returned("scan_ports")
    /\ \E i, j \in Units :
          /\ i < j /\ Before(settled, j, i)
          /\ result[i].is_open /\ result[j].is_open

\* C8: open_ports of the returned report is determined by the ports
\* argument and by what each port's connect attempt does; the concurrency
\* limit (1, 200 or any other) and the interleaving do not enter.
OpenPortsIndependentOfLimit ==
    Returned("scan_ports") =>
        report.open_ports = SortedSet({p \in Range(ports) : conn[p] = "connected"})

WitnessSerialScanWithOpenPort ==
    /\ Returned("scan_ports")
    /\ limit = 1
    /\ Len(report.open_ports) >= 1
    /\ Len(report.open_ports) < Len(report.ports_scanned)
    /\ \E i \in DOMAIN report.results : i > 1 /\ report.results[i].is_open

\* C9: a connect attempt that ends in a timeout, a refusal or any other
\* failure gives is_open = false for its port, and scan_ports never raises.
FailedConnectNeverRaises ==
    call = "scan_ports" =>
        /\ pc # "raised"
        /\ \A i \in Units :
              (unit[i] \in {"done", "failed"} /\ conn[ports_list[i]] # "connected")
                 => (unit[i] = "done" /\ ~result[i].is_open)

\* C10: every discovered name is the root domain or a dot-separated
\* subdomain of it, compared case-insensitively.
IsRootOrSubdomain(n, domain) ==
    \/ Lower(n) = Lower(domain)
    \/ EndsWith(Lower(n), <<".">> \o Lower(domain))

DiscoveredUnderRoot ==
    Returned("enumerate_subdomains") =>
        \A k \in DOMAIN report.discovered :
            IsRootOrSubdomain(report.discovered[k], root_domain)

\* the names a call's two sources contribute, from its inputs
CTNames == Range(FromCrtsh(root_domain, ct_response))

ResolvedCandidates ==
    {Candidates(root_domain, SubSeq(WORDLIST, 1, MaxWords))[i] : i \in resolves}

\* crt.sh answering www.e.c, api.e.c and w.o.c for root e.c: the names kept
KeptNamesExample ==
    FromCrtsh(<<"e", ".", "c">>,
              [ok |-> TRUE,
               data |-> << <<"w", "w", "w", ".", "e", ".", "c">>,
                           <<"a", "p", "i", ".", "e", ".", "c">>,
                           <<"w", ".", "o", ".", "c">> >>])
      = << <<"a", "p", "i", ".", "e", ".", "c">>,
           <<"w", "w", "w", ".", "e", ".", "c">> >>

\* C11: the discovered list of the returned result is sorted ascending
\* without duplicates and holds exactly the names kept from crt.sh and the
\* candidates that resolved; with crt.sh answering www.e.c, api.e.c and
\* w.o.c for root e.c the kept names are api.e.c, www.e.c.
DiscoveredIsSortedUnion ==
    /\ KeptNamesExample
    /\ Returned("enumerate_subdomains") =>
         LET d == report.discovered
         IN  /\ \A a, b \in DOMAIN d : a < b => StrLess(d[a], d[b])
             /\ Range(d) = CTNames \cup ResolvedCandidates

WitnessBothSourcesContribute ==
    /\ Returned("enumerate_subdomains")
    /\ CTNames \ ResolvedCandidates # {}
    /\ ResolvedCandidates \ CTNames # {}
    /\ CTNames \cap ResolvedCandidates # {}

\* C12: in the returned result sources["crt.sh"] is the number of names
\* crt.sh yielded and sources["dns-wordlist"] is the number of candidates
\* whose own resolution succeeded, at most the wordlist length.
SourceCountsAreOwnYield ==
    Returned("enumerate_subdomains") =>
        /\ report.sources["crt.sh"] = Cardinality(CTNames)
        /\ report.sources["dns-wordlist"] = Cardinality(resolves)
        /\ report.sources["dns-wordlist"] <= Len(candidates)

\* C13: the crt.sh lookup and the DNS sweep overlap: a state is reached in
\* which the lookup is pending while units of the sweep are under way.
SourcesOverlap ==
    <>(pc = "ct" /\ \E i \in Units : unit[i] \in {"waiting", "inflight"})

\* what the code does instead: no unit exists while the lookup is pending
SweepStartsAfterLookup == pc \in {"entry", "ct"} => Units = {}

\* C14: no failure of a source makes enumerate_subdomains fail: the call
\* never raises and no check task fails, so nothing keeps it from
\* returning; in the result a failed crt.sh lookup counts 0 names, a
\* candidate whose query failed is not added, and what the other source
\* found is there.
SourceFailureNeverAborts ==
    call = "enumerate_subdomains" =>
      /\ pc # "raised"
      /\ \A i \in Units : unit[i] # "failed"
      /\ pc = "returned" =>
            /\ ~ct_response.ok =>
                  /\ report.sources["crt.sh"] = 0
                  /\ Range(report.discovered) = ResolvedCandidates
            /\ \A i \in DOMAIN candidates :
                  (~Resolve(i, resolves) /\ candidates[i] \notin CTNames)
                      => candidates[i] \notin Range(report.discovered)
            /\ CTNames \subseteq Range(report.discovered)
            /\ ResolvedCandidates \subseteq Range(report.discovered)

WitnessReturnedDespiteFailures ==
    /\ Returned("enumerate_subdomains")
    /\ ~ct_response.ok
    /\ resolves # {}
    /\ \E i \in DOMAIN candidates : ~Resolve(i, resolves)
    /\ report.discovered # <<>>

\* C15: every name of the discovered list is lowercase, whatever the case
\* of the root domain passed in.
DiscoveredLowercase ==
    Returned("enumerate_subdomains") =>
        \A k \in DOMAIN report.discovered :
            Lower(report.discovered[k]) = report.discovered[k]

InScan == call \in {"domain", "scan_domain"}

TakeoverFailureAbsorbed ==
    (InScan /\ "subdomains" \in toggles /\ "subdomains" \notin fails
            /\ "takeover" \in fails)
      ~> (/\ pc = "returned"
          /\ report.slots["takeover"] = None
          /\ \A p \in ReportSlots \ {"takeover"} : report.slots[p] = slots[p])

\* C18: whatever checks are enabled and whichever probes fail, the
\* orchestrator does not raise, and the report it returns has
\* finished_at >= started_at.
ScanNeverRaises ==
    InScan =>
      /\ pc # "raised"
      /\ pc = "returned" => report.finished_at >= report.started_at

\* C19: every probe that ran and failed leaves its slot of the report
\* absent (None).
FailedProbesAreAbsent ==
    InScan /\ pc = "returned" =>
      \A p \in (started \cap fails) \cap ReportSlots : report.slots[p] = None

\* C20: every probe has a toggle and runs only if its toggle is enabled
\* (takeover hangs on the subdomain toggle): a probe that began to run is
\* one the caller left enabled.
ProbesRunOnlyIfEnabled ==
    InScan =>
      \A p \in started : (IF p = "takeover" THEN "subdomains" ELSE p) \in toggles

\* C21: started_at is taken before the first probe is dispatched and
\* finished_at after the last enabled probe has settled: once finished_at is
\* taken no probe is still running and none starts, TLS and DNS included,
\* and finished_at >= started_at.
FinishedAfterLastProbe ==
    [][(InScan /\ finished_at # 0) =>
          /\ finished_at >= started_at
          /\ running = {}
          /\ started' = started]_vars

\* the checks of a run that are on: the toggles, and the zone transfer check,
\* which has no toggle
EnabledProbes == toggles \cup {"dns_axfr"}

\* the orchestrator is past Dispatching
Dispatched == InScan /\ pc \notin {"entry", "ports_list", "schedule", "rejected", "crashed"}

\* C22: when Dispatching is over every enabled non-blocking probe has been
\* scheduled as a task of its own (it is queued on the loop or already
\* running), before any of them is awaited; in both orchestrators.
NonBlockingProbesScheduledTogether ==
    Dispatched =>
      \A p \in EnabledProbes \ BlockingProbes : p \in Range(tasks) \cup started

\* the command has at most one probe in flight at any time
CliOneProbeAtATime == call = "domain" => Cardinality(running) <= 1

\* C23: a blocking probe never executes on the thread of the event loop: in
\* both orchestrators it runs on an offload worker.
BlockingProbesOffloaded ==
    InScan => \A p \in started \cap BlockingProbes : ExecutesOn(call, p) = "worker"

\* C24: in scan_domain the offloaded blocking probes start during
\* Dispatching: when Dispatching is over each enabled one is scheduled or
\* running, so that it overlaps the non-blocking probes.
BlockingProbesStartInDispatching ==
    (call = "scan_domain" /\ Dispatched) =>
      \A p \in EnabledProbes \cap BlockingProbes : p \in Range(tasks) \cup started

\* scan_domain never has a blocking probe in flight
ApiNoBlockingProbeInFlight ==
    call = "scan_domain" => running \cap BlockingProbes = {}

\* the orchestrator has normalised its target
Normalized == InScan /\ pc # "entry"

\* C25: the host that normalisation yields, for a bare domain or a URL and
\* in both orchestrators, has no scheme prefix, no path and no trailing
\* slash: it contains no "/" (and so no "://").
HostHasNoSlash ==
    Normalized => \A i \in DOMAIN host : host[i] # "/"

\* the scheme the documented precedence gives: an explicit http:// or
\* https:// is kept, otherwise a loopback name gets http, otherwise https
SchemeByPrecedence(domain) ==
    IF IsUrl(Strip(domain)) THEN UrlScheme(Strip(domain))
    ELSE IF Host(domain) \in Loopback THEN <<"h", "t", "t", "p">>
    ELSE <<"h", "t", "t", "p", "s">>

\* C26: both orchestrators infer the scheme by the precedence explicit
\* scheme > loopback name > https, and base_url is scheme://host.
SchemeFollowsPrecedence ==
    Normalized =>
      /\ scheme = SchemeByPrecedence(req.domain)
      /\ base_url = scheme \o <<":", "/", "/">> \o host

\* the target is empty or only whitespace
MalformedTarget == Strip(req.domain) = <<>>

\* C27: a malformed target makes normalisation fail at once, so that the
\* orchestrator never gets past it and no probe is dispatched; and no
\* request with a well-formed target fails as a whole.
MalformedTargetFailsAtOnce ==
    InScan =>
      /\ MalformedTarget =>
            pc \in {"entry", "rejected"} /\ started = {} /\ tasks = <<>>
      /\ pc = "raised" => MalformedTarget

\* the port arguments the documentation calls invalid: an unknown profile,
\* or the custom profile with no port in its list
InvalidPortArgs ==
    \/ req.port_profile \notin {"top30", "top100", "custom"}
    \/ /\ req.port_profile = "custom"
       /\ IF call = "domain" THEN CsvItems(req.custom_ports) = <<>>
                              ELSE req.custom_ports = <<>>

\* C28: invalid port arguments are rejected before any probe is dispatched,
\* in both orchestrators: the run never gets to scheduling.
InvalidPortArgsRejected ==
    (InScan /\ InvalidPortArgs) =>
      pc \in {"entry", "ports_list", "rejected"} /\ started = {} /\ tasks = <<>>

\* C29: every port handed to the port scan, which attempts a connect to
\* each and reports each in ports_scanned, is in 1..65535.
ScannedPortsInRange ==
    (InScan /\ "ports" \in started) =>
      \A i \in DOMAIN ports_list : ports_list[i] \in 1..65535

\* C30: the report has a slot for every probe: the result of each probe that
\* ran to a result is in the returned report.
NoResultLost ==
    (InScan /\ pc = "returned") =>
      \A p \in Probes : slots[p] = "result" =>
        p \in DOMAIN report.slots /\ report.slots[p] = "result"

\* C34: a port whose TCP connect succeeded within the timeout is reported
\* with is_open true, whatever happens while the probe closes the
\* connection it opened.
ConnectedPortIsOpen ==
    Returned("scan_ports") =>
      \A i \in DOMAIN report.results :
        conn[report.results[i].port] \in {"connected", "close_error"}
          => report.results[i].is_open

\* C35: the returned report has one outcome per scanned port, in the order
\* of ports_scanned, whatever the completion order and the limit: every
\* unit settled exactly once, results[i].port = ports_scanned[i], and an
\* empty port set gives three empty lists.
ResultsMatchPortsScanned ==
    Returned("scan_ports") =>
      /\ Len(report.results) = Len(report.ports_scanned)
      /\ \A i \in DOMAIN report.results :
            report.results[i].port = report.ports_scanned[i]
      /\ Len(settled) = Len(report.ports_scanned)
      /\ Range(settled) = DOMAIN report.ports_scanned
      /\ ports = <<>> =>
            report = [ports_scanned |-> <<>>, open_ports |-> <<>>, results |-> <<>>]

WitnessClosedPortFinishedFirst ==
    /\ Returned("scan_ports")
    /\ \E i, j \in Units :
          /\ i < j /\ Before(settled, j, i)
          /\ ~report.results[j].is_open /\ report.results[i].is_open

\* C37: when scan_domain finishes, by returning or by raising, every task
\* it created has settled: none waits to run and none is still running.
ApiLeavesNoTaskBehind ==
    (call = "scan_domain" /\ pc \in {"returned", "raised"}) =>
      tasks = <<>> /\ running = {}

\* C38: scan_ports with limit 0 and at least one port never returns, every
\* unit staying blocked on the semaphore; with a limit >= 1 and connect
\* attempts that each succeed, fail or time out, every queued unit gets a
\* slot and the call returns.
ScanPortsReturnsUnlessLimitZero ==
    /\ (limit = 0 /\ ports # <<>>) =>
          [](/\ pc \notin {"returned", "raised"}
             /\ \A i \in Units : unit[i] \in {"created", "waiting"})
    /\ (limit >= 1 /\ \A p \in Range(ports) : conn[p] # "error") =>
          /\ <>(pc = "returned")
          /\ \A i \in 1..MaxPort :
                [](i \in Units /\ unit[i] = "waiting"
                     => <>(i \in Units /\ unit[i] = "inflight"))

WitnessEveryUnitBlockedAtLimitZero ==
    /\ call = "scan_ports" /\ limit = 0
    /\ Units # {}
    /\ \A i \in Units : unit[i] = "waiting"

----------------------------------------------------------------------------
(* security headers *)

\* the value given for the header with key k (any spelling), or <<>>
Given(k) ==
    IF k \in DOMAIN LowerKeys(headers) THEN <<LowerKeys(headers)[k]>> ELSE <<>>

AllSixPresent == \A i \in DOMAIN SECURITY_HEADERS : Given(SECURITY_HEADERS[i].key) # <<>>

\* all six baseline headers present with compliant values
AllSixCompliant ==
    /\ AllSixPresent
    /\ LET csp == Lower(Given("content-security-policy")[1])
           hsts == Lower(Given("strict-transport-security")[1])
           xcto == Lower(Strip(Given("x-content-type-options")[1]))
           xfo == Lower(Strip(Given("x-frame-options")[1]))
           rp == Lower(Strip(Given("referrer-policy")[1]))
           pp == Given("permissions-policy")[1]
       IN  /\ Contains(csp, <<"d", "e", "f", "a", "u", "l", "t", "-", "s", "r", "c">>)
           /\ ~Contains(csp, <<"*">>)
           /\ ~Contains(csp, <<"u", "n", "s", "a", "f", "e", "-", "i", "n", "l", "i", "n", "e">>)
           /\ Contains(hsts, <<"i", "n", "c", "l", "u", "d", "e", "s", "u", "b", "d", "o", "m", "a", "i", "n", "s">>)
           /\ Contains(hsts, <<"p", "r", "e", "l", "o", "a", "d">>)
           /\ MaxAge(hsts) # <<>> /\ MaxAge(hsts)[1] >= 15552000
           /\ xcto = <<"n", "o", "s", "n", "i", "f", "f">>
           /\ xfo \in {<<"d", "e", "n", "y">>, <<"s", "a", "m", "e", "o", "r", "i", "g", "i", "n">>}
           /\ rp \in {<<"n", "o", "-", "r", "e", "f", "e", "r", "r", "e", "r">>,
                      <<"s", "a", "m", "e", "-", "o", "r", "i", "g", "i", "n">>,
                      <<"s", "t", "r", "i", "c", "t", "-", "o", "r", "i", "g", "i", "n", "-", "w", "h", "e", "n", "-", "c", "r", "o", "s", "s", "-", "o", "r", "i", "g", "i", "n">>}
           /\ ~Contains(pp, <<"*">>)

\* C31: a header map with all six baseline security headers present with
\* compliant values, served over HTTPS, is graded A+ or A with a score in
\* 90..100 by evaluate_security_headers followed by _grade_from_findings
CompliantHeadersGradeA ==
    (Returned("evaluate_security_headers") /\ AllSixCompliant /\ is_https) =>
        /\ report.grade \in {"A+", "A"}
        /\ report.score \in 90..100

\* compliant headers that still draw two quality findings, graded A with 90
WitnessCompliantHeadersScoreNinety ==
    /\ Returned("evaluate_security_headers") /\ AllSixCompliant /\ is_https
    /\ report = [grade |-> "A", score |-> 90]
    /\ Len(findings) = Len(SECURITY_HEADERS) + 2

\* C32: a header map with at least one of the six baseline security headers
\* missing is graded C, D or F with a score in 0..80, whatever the values of
\* the headers that are present
MissingHeaderGradeAtMostC ==
    (Returned("evaluate_security_headers") /\ ~AllSixPresent) =>
        /\ report.grade \in {"C", "D", "F"}
        /\ report.score \in 0..80

\* one header missing and nothing to improve on the other five: 83 - 5
WitnessOneMissingHeaderGradeC ==
    /\ Returned("evaluate_security_headers")
    /\ Cardinality(DOMAIN headers) = Len(SECURITY_HEADERS) - 1
    /\ report = [grade |-> "C", score |-> 78]

----------------------------------------------------------------------------
(* DNS assessment *)

\* C33: for every set of TXT records, and on any DNS failure, assess_dns
\* returns an assessment whose domain is the input and whose dmarc_policy is
\* None, "none", "quarantine" or "reject"
DmarcPolicyIsKnown ==
    Returned("assess_dns") =>
        /\ report.domain = dns_domain
        /\ report.dmarc_policy \in {Nothing, Some(<<"n", "o", "n", "e">>),
                                    Some(<<"q", "u", "a", "r", "a", "n", "t", "i", "n", "e">>),
                                    Some(<<"r", "e", "j", "e", "c", "t">>)}

----------------------------------------------------------------------------
(* takeover check *)

\* how many findings of fs are for the name n
FindingsOn(fs, n) == Cardinality({k \in DOMAIN fs : fs[k].subdomain = n})

\* how many times the name n is in the list names
Occurrences(names, n) == Cardinality({i \in DOMAIN names : names[i] = n})

FirstTwoHundred == SubSeq(subdomains, 1, Min(Len(subdomains), 200))

\* C36: check_takeover_candidates probes at most the first 200 names of its
\* input, one after the other in input order; a failure on one name skips
\* only that name; the result has checked_count = min(len(input), 200), at
\* most one finding for each name probed, and every flagged name is among the
\* first 200 input names
TakeoverProbesFirstTwoHundred ==
    call = "check_takeover_candidates" =>
        /\ pc # "raised"
        /\ Len(requested) <= 200
        /\ requested = SubSeq(subdomains, 1, Len(requested))
        /\ \A n \in Range(subdomains) :
              FindingsOn(flagged, n) <= Occurrences(requested, n)
        /\ \A k \in DOMAIN flagged : flagged[k].subdomain \in Range(FirstTwoHundred)
        /\ pc = "returned" =>
              /\ requested = FirstTwoHundred
              /\ report.checked_count = Min(Len(subdomains), 200)
              /\ report.flagged = flagged
              /\ Len(flagged) =
                    Cardinality({i \in DOMAIN FirstTwoHundred :
                                    ~respond[i].raises /\ respond[i].phrases # {}})

\* 201 names: the first fails, the 200th answers with two signatures and is
\* flagged once, the 201st would match and is never asked
WitnessTakeoverPastTheCap ==
    /\ Returned("check_takeover_candidates")
    /\ Len(subdomains) = 201
    /\ respond[1].raises
    /\ respond[200].phrases = {2, 3} /\ respond[201].phrases = {2, 3}
    /\ report = [checked_count |-> 200,
                 flagged |-> <<TakeoverFinding(subdomains[200],
                                   "Potential takeover signature: AWS S3")>>]

====
